---- MODULE Spec2Model ----
(***************************************************************************)
(* Model of the mutex-guarded FIFO channel of aufgabe1/spsc/src/main.rs:   *)
(* Producer and Consumer handles sharing one Arc<Mutex<VecDeque<T>>>.      *)
(* Every thread owns one handle (the channel() pair or a clone of it) and  *)
(* calls the handle's operations one after another.  A call is split at    *)
(* the points where other threads can interleave: the call itself and the  *)
(* critical section, which runs from the acquisition of the mutex to the   *)
(* drop of the guard.  Only recv can stay inside its critical section: it  *)
(* takes one step per turn of its loop.                                    *)
(***************************************************************************)
EXTENDS Integers, Sequences, FiniteSets

VARIABLES hint, queue, bufcap, holder, poisoned, pc, arg, ret, spins, trace,
          unlinked, tester

vars == <<hint, queue, bufcap, holder, poisoned, pc, arg, ret, spins, trace,
          unlinked, tester>>

(* ------------------------------ bounds --------------------------------- *)
\* values sent are 1..MaxVal
MaxVal == 2
\* send calls made over a run
MaxSends == 2
\* failed pop attempts counted per recv (the count saturates)
MaxSpin == 1
\* capacity hints given to channel() are 0..MaxHint
MaxHint == 1

Producers == {"p1", "p2"}
Consumers == {"c1", "c2"}
Threads   == Producers \cup Consumers
NoThread  == "none"
Values    == 1..MaxVal

(* ----------------- handles that are not on the channel ----------------- *)
\* Producer::new and Consumer::new each build a queue of their own, and a
\* second channel() call builds one queue for its pair.  unlinked holds the
\* contents of these queues; one test thread calls their handles in turn.
OtherQueues  == {"producer_new", "consumer_new", "channel2"}
OtherHandles == {"pn", "cn", "px2", "cx2"}
OtherProducers == {"pn", "px2"}
OtherConsumers == {"cn", "cx2"}

QueueOf(h) ==
    CASE h = "pn" -> "producer_new"
      [] h = "cn" -> "consumer_new"
      [] h \in {"px2", "cx2"} -> "channel2"

(* ------------------------- results of a call --------------------------- *)
\* ret is the outcome of the call that ended in the step just taken
NoReturn          == [thread |-> NoThread, op |-> "none", kind |-> "None", val |-> 0]
Ok(t, o, v)       == [thread |-> t, op |-> o, kind |-> "Ok", val |-> v]
SendError(t, v)   == [thread |-> t, op |-> "send", kind |-> "SendError", val |-> v]
RecvErrorLock(t)  == [thread |-> t, op |-> "recv", kind |-> "RecvErrorLock", val |-> 0]
ErrorResult(t, o) == [thread |-> t, op |-> o, kind |-> "Error", val |-> 0]
RecvErrorNone(t)  == [thread |-> t, op |-> "recv", kind |-> "RecvErrorNone", val |-> 0]
Panic(t, o)       == [thread |-> t, op |-> o, kind |-> "Panic", val |-> 0]

(* ------------------------- the VecDeque buffer ------------------------- *)
RECURSIVE NextPowerOfTwo(_)
NextPowerOfTwo(n) == IF n <= 1 THEN 1 ELSE 2 * NextPowerOfTwo((n + 1) \div 2)

Max(a, b) == IF a >= b THEN a ELSE b
Min(a, b) == IF a <= b THEN a ELSE b

\* a with_capacity that reserves what was asked for and the free slot
WithCapacityExact(n) == n + 1

\* VecDeque::with_capacity(n): a ring buffer of a power-of-two size that keeps
\* one slot free
WithCapacity(n) == NextPowerOfTwo(Max(n + 1, 2))

\* VecDeque::capacity()
Capacity(cap) == cap - 1

\* a len() that counts the free slot of the ring buffer as well
QueueLenOffByOne(q) == Len(q) + 1

\* VecDeque::len()
QueueLen(q) == Len(q)

\* the buffer doubles when a push finds it full (one free slot left)
GrowIfNecessary(cap, q) == IF cap - Len(q) = 1 THEN 2 * cap ELSE cap

\* a push at the wrong end of the buffer
PushFront(q, v) == <<v>> \o q

\* VecDeque::push_back
PushBack(q, v) == Append(q, v)

\* a pop that reads the back of the buffer
PopBackValue(q) == q[Len(q)]

\* VecDeque::pop_front, on a non-empty queue
PopFrontValue(q) == Head(q)

\* a pop that hands out the front element and leaves it in the buffer
PopFrontRestKept(q) == q

PopFrontRest(q)  == Tail(q)

(* ------------------------- history of the queue ------------------------ *)
\* trace lists the pushes and pops in the order of their critical sections
PushEvent(v) == <<"push", v>>
PopEvent(v)  == <<"pop", v>>

RECURSIVE EventValues(_, _)
EventValues(tr, k) ==
    IF tr = <<>> THEN <<>>
    ELSE IF Head(tr)[1] = k THEN <<Head(tr)[2]>> \o EventValues(Tail(tr), k)
         ELSE EventValues(Tail(tr), k)

Pushed   == EventValues(trace, "push")
Received == EventValues(trace, "pop")

SendsCalled == Len(Pushed) + Cardinality({t \in Threads : pc[t] = "send"})

(* ------------------------------- Init ---------------------------------- *)
\* channel(hint): one empty queue, one healthy free mutex, every handle idle
Init ==
    /\ hint \in 0..MaxHint
    /\ queue = <<>>
    /\ bufcap = WithCapacity(hint)
    /\ holder = NoThread
    /\ poisoned = FALSE
    /\ pc = [t \in Threads |-> "idle"]
    /\ arg = [t \in Threads |-> 0]
    /\ ret = NoReturn
    /\ spins = [t \in Threads |-> 0]
    /\ trace = <<>>
    /\ unlinked = [q \in OtherQueues |-> <<>>]
    /\ tester = "running"

(* --------------------------- Producer::send ---------------------------- *)
CallSend(p, v) ==
    /\ pc[p] = "idle"
    /\ SendsCalled < MaxSends
    /\ pc' = [pc EXCEPT ![p] = "send"]
    /\ arg' = [arg EXCEPT ![p] = v]
    /\ ret' = NoReturn
    /\ UNCHANGED <<unlinked, tester, hint, queue, bufcap, holder, poisoned, spins, trace>>

\* a send that treats the capacity hint as a limit and hands the value back
SendOkBounded(p) ==
    /\ pc[p] = "send"
    /\ holder = NoThread
    /\ ~poisoned
    /\ IF Len(queue) >= hint
       THEN /\ ret' = SendError(p, arg[p])
            /\ UNCHANGED <<unlinked, tester, queue, bufcap, trace>>
       ELSE /\ bufcap' = GrowIfNecessary(bufcap, queue)
            /\ queue' = PushBack(queue, arg[p])
            /\ trace' = Append(trace, PushEvent(arg[p]))
            /\ ret' = Ok(p, "send", 0)
    /\ pc' = [pc EXCEPT ![p] = "idle"]
    /\ arg' = [arg EXCEPT ![p] = 0]
    /\ UNCHANGED <<unlinked, tester, hint, holder, poisoned, spins>>

\* lock() is Ok(guard): queue.push_back(value); Ok(()); the guard is dropped
SendOk(p) ==
    /\ pc[p] = "send"
    /\ holder = NoThread
    /\ ~poisoned
    /\ bufcap' = GrowIfNecessary(bufcap, queue)
    /\ queue' = PushBack(queue, arg[p])
    /\ trace' = Append(trace, PushEvent(arg[p]))
    /\ pc' = [pc EXCEPT ![p] = "idle"]
    /\ arg' = [arg EXCEPT ![p] = 0]
    /\ ret' = Ok(p, "send", 0)
    /\ UNCHANGED <<unlinked, tester, hint, holder, poisoned, spins>>

\* lock() is Err(PoisonError): the else branch panics, the value is gone
SendPoisoned(p) ==
    /\ pc[p] = "send"
    /\ holder = NoThread
    /\ poisoned
    /\ pc' = [pc EXCEPT ![p] = "panicked"]
    /\ arg' = [arg EXCEPT ![p] = 0]
    /\ ret' = Panic(p, "send")
    /\ UNCHANGED <<unlinked, tester, hint, queue, bufcap, holder, poisoned, spins, trace>>

(* --------------------------- Consumer::recv ---------------------------- *)
CallRecv(c) ==
    /\ pc[c] = "idle"
    /\ pc' = [pc EXCEPT ![c] = "recv"]
    /\ ret' = NoReturn
    /\ UNCHANGED <<unlinked, tester, hint, queue, bufcap, holder, poisoned, arg, spins, trace>>

\* maybe_queue is Ok(guard): the loop is entered with the guard held
RecvLock(c) ==
    /\ pc[c] = "recv"
    /\ holder = NoThread
    /\ ~poisoned
    /\ holder' = c
    /\ pc' = [pc EXCEPT ![c] = "recv_loop"]
    /\ spins' = [spins EXCEPT ![c] = 0]
    /\ ret' = NoReturn
    /\ UNCHANGED <<unlinked, tester, hint, queue, bufcap, poisoned, arg, trace>>

\* a recv that takes the guard out of the PoisonError and pops all the same
RecvPoisonedIgnored(c) ==
    /\ pc[c] = "recv"
    /\ holder = NoThread
    /\ poisoned
    /\ holder' = c
    /\ pc' = [pc EXCEPT ![c] = "recv_loop"]
    /\ spins' = [spins EXCEPT ![c] = 0]
    /\ ret' = NoReturn
    /\ UNCHANGED <<unlinked, tester, hint, queue, bufcap, poisoned, arg, trace>>

\* maybe_queue is Err(PoisonError): Err(RecvError) is returned
RecvPoisoned(c) ==
    /\ pc[c] = "recv"
    /\ holder = NoThread
    /\ poisoned
    /\ pc' = [pc EXCEPT ![c] = "idle"]
    /\ ret' = RecvErrorLock(c)
    /\ UNCHANGED <<unlinked, tester, hint, queue, bufcap, holder, poisoned, arg, spins, trace>>

\* a recv that gives up on the first None instead of going round the loop
RecvPopNoneError(c) ==
    /\ pc[c] = "recv_loop"
    /\ holder = c
    /\ queue = <<>>
    /\ ret' = RecvErrorNone(c)
    /\ holder' = NoThread
    /\ pc' = [pc EXCEPT ![c] = "idle"]
    /\ UNCHANGED <<unlinked, tester, hint, queue, bufcap, poisoned, arg, spins, trace>>

\* a recv that panics on None with its guard alive, which poisons the mutex
RecvPopNonePanics(c) ==
    /\ pc[c] = "recv_loop"
    /\ holder = c
    /\ queue = <<>>
    /\ ret' = Panic(c, "recv")
    /\ poisoned' = TRUE
    /\ holder' = NoThread
    /\ pc' = [pc EXCEPT ![c] = "panicked"]
    /\ UNCHANGED <<unlinked, tester, hint, queue, bufcap, arg, spins, trace>>

\* queue.pop_front() is None: the loop goes round, the guard stays held
RecvPopNone(c) ==
    /\ pc[c] = "recv_loop"
    /\ holder = c
    /\ queue = <<>>
    /\ spins' = [spins EXCEPT ![c] = Min(spins[c] + 1, MaxSpin)]
    /\ ret' = NoReturn
    /\ UNCHANGED <<unlinked, tester, hint, queue, bufcap, holder, poisoned, pc, arg, trace>>

\* a recv that gives spare storage back after its pop
RecvPopSomeShrinks(c) ==
    /\ pc[c] = "recv_loop"
    /\ holder = c
    /\ queue # <<>>
    /\ ret' = Ok(c, "recv", PopFrontValue(queue))
    /\ trace' = Append(trace, PopEvent(PopFrontValue(queue)))
    /\ queue' = PopFrontRest(queue)
    /\ bufcap' = NextPowerOfTwo(Max(Len(queue), 2))
    /\ holder' = NoThread
    /\ pc' = [pc EXCEPT ![c] = "idle"]
    /\ spins' = [spins EXCEPT ![c] = 0]
    /\ UNCHANGED <<unlinked, tester, hint, poisoned, arg>>

\* queue.pop_front() is Some(v): break, Ok(v), and the guard is dropped
RecvPopSome(c) ==
    /\ pc[c] = "recv_loop"
    /\ holder = c
    /\ queue # <<>>
    /\ ret' = Ok(c, "recv", PopFrontValue(queue))
    /\ trace' = Append(trace, PopEvent(PopFrontValue(queue)))
    /\ queue' = PopFrontRest(queue)
    /\ holder' = NoThread
    /\ pc' = [pc EXCEPT ![c] = "idle"]
    /\ spins' = [spins EXCEPT ![c] = 0]
    /\ UNCHANGED <<unlinked, tester, hint, bufcap, poisoned, arg>>

(* ------------------- size() and capacity(), both handles --------------- *)
CallSize(t) ==
    /\ pc[t] = "idle"
    /\ pc' = [pc EXCEPT ![t] = "size"]
    /\ ret' = NoReturn
    /\ UNCHANGED <<unlinked, tester, hint, queue, bufcap, holder, poisoned, arg, spins, trace>>

\* a size() that returns with its guard still alive
SizeOkKeepsLock(t) ==
    /\ pc[t] = "size"
    /\ holder = NoThread
    /\ ~poisoned
    /\ ret' = Ok(t, "size", QueueLen(queue))
    /\ holder' = t
    /\ pc' = [pc EXCEPT ![t] = "idle"]
    /\ UNCHANGED <<unlinked, tester, hint, queue, bufcap, poisoned, arg, spins, trace>>

\* lock() is Ok(guard): Ok(queue.len()); the guard is dropped
SizeOk(t) ==
    /\ pc[t] = "size"
    /\ holder = NoThread
    /\ ~poisoned
    /\ ret' = Ok(t, "size", QueueLen(queue))
    /\ pc' = [pc EXCEPT ![t] = "idle"]
    /\ UNCHANGED <<unlinked, tester, hint, queue, bufcap, holder, poisoned, arg, spins, trace>>

\* lock() is Err(PoisonError): the else branch panics
SizePoisoned(t) ==
    /\ pc[t] = "size"
    /\ holder = NoThread
    /\ poisoned
    /\ pc' = [pc EXCEPT ![t] = "panicked"]
    /\ ret' = Panic(t, "size")
    /\ UNCHANGED <<unlinked, tester, hint, queue, bufcap, holder, poisoned, arg, spins, trace>>

CallCapacity(t) ==
    /\ pc[t] = "idle"
    /\ pc' = [pc EXCEPT ![t] = "capacity"]
    /\ ret' = NoReturn
    /\ UNCHANGED <<unlinked, tester, hint, queue, bufcap, holder, poisoned, arg, spins, trace>>

\* lock() is Ok(guard): Ok(queue.capacity()); the guard is dropped
CapacityOk(t) ==
    /\ pc[t] = "capacity"
    /\ holder = NoThread
    /\ ~poisoned
    /\ ret' = Ok(t, "capacity", Capacity(bufcap))
    /\ pc' = [pc EXCEPT ![t] = "idle"]
    /\ UNCHANGED <<unlinked, tester, hint, queue, bufcap, holder, poisoned, arg, spins, trace>>

\* lock() is Err(PoisonError): the else branch panics
CapacityPoisoned(t) ==
    /\ pc[t] = "capacity"
    /\ holder = NoThread
    /\ poisoned
    /\ pc' = [pc EXCEPT ![t] = "panicked"]
    /\ ret' = Panic(t, "capacity")
    /\ UNCHANGED <<unlinked, tester, hint, queue, bufcap, holder, poisoned, arg, spins, trace>>

(* ----------------------- poisoning of the mutex ------------------------ *)
\* A thread of the crate takes the guard of the queue's mutex and panics
\* before dropping it: std marks the mutex poisoned and releases it.
PoisonLock ==
    /\ holder = NoThread
    /\ ~poisoned
    /\ poisoned' = TRUE
    /\ ret' = NoReturn
    /\ UNCHANGED <<unlinked, tester, hint, queue, bufcap, holder, pc, arg, spins, trace>>

(* ------------------------------- Next ---------------------------------- *)
\* the steps a thread takes inside a call it has made
Step(t) ==
    \/ t \in Producers /\ (SendOk(t) \/ SendPoisoned(t))
    \/ t \in Consumers /\ (RecvLock(t) \/ RecvPoisoned(t)
                           \/ RecvPopNone(t) \/ RecvPopSome(t))
    \/ SizeOk(t) \/ SizePoisoned(t)
    \/ CapacityOk(t) \/ CapacityPoisoned(t)

Call(t) ==
    \/ t \in Producers /\ \E v \in Values : CallSend(t, v)
    \/ t \in Consumers /\ CallRecv(t)
    \/ CallSize(t)
    \/ CallCapacity(t)

Next ==
    \/ \E t \in Threads : Call(t)
    \/ \E t \in Threads : Step(t)
    \/ PoisonLock

Spec == Init /\ [][Next]_vars

\* the OS scheduler lets every thread that can take a step take one
FairSpec == Spec /\ \A t \in Threads : WF_vars(Step(t))

(* ------------- one producer and one consumer, wider hints -------------- *)
\* capacity hints given to channel() in CapSpec are 0..MaxCapHint
MaxCapHint == 4

\* the pair of handles that channel() returns, one thread each
Duo == {"p1", "c1"}

CapInit ==
    /\ hint \in 0..MaxCapHint
    /\ queue = <<>>
    /\ bufcap = WithCapacity(hint)
    /\ holder = NoThread
    /\ poisoned = FALSE
    /\ pc = [t \in Threads |-> "idle"]
    /\ arg = [t \in Threads |-> 0]
    /\ ret = NoReturn
    /\ spins = [t \in Threads |-> 0]
    /\ trace = <<>>
    /\ unlinked = [q \in OtherQueues |-> <<>>]
    /\ tester = "running"

CapNext ==
    \/ \E t \in Duo : Call(t)
    \/ \E t \in Duo : Step(t)
    \/ PoisonLock

CapSpec == CapInit /\ [][CapNext]_vars

(* -------------------------- dropping handles --------------------------- *)
\* the handles that still hold a reference to the queue: a thread that has
\* finished or unwound has dropped its handle
Live(t) == pc[t] \notin {"dropped", "panicked"}

\* a drop that takes the buffer with it whichever handles remain
DropHandleClears(t) ==
    /\ pc[t] = "idle"
    /\ pc' = [pc EXCEPT ![t] = "dropped"]
    /\ ret' = NoReturn
    /\ queue' = <<>>
    /\ bufcap' = 0
    /\ UNCHANGED <<unlinked, tester, hint, holder, poisoned, arg, spins, trace>>

\* The thread's closure ends and its handle is dropped: the Arc loses one
\* reference, and the queue is freed with the last one.
DropHandle(t) ==
    /\ pc[t] = "idle"
    /\ pc' = [pc EXCEPT ![t] = "dropped"]
    /\ ret' = NoReturn
    /\ IF \E u \in Threads \ {t} : Live(u)
       THEN UNCHANGED <<queue, bufcap>>
       ELSE queue' = <<>> /\ bufcap' = 0
    /\ UNCHANGED <<unlinked, tester, hint, holder, poisoned, arg, spins, trace>>

DropNext ==
    \/ Next
    \/ \E t \in Threads : DropHandle(t)

DropSpec == Init /\ [][DropNext]_vars

(* ------------- calls on the handles that are not on the channel -------- *)
\* values queued at one time on the queues that are not the channel's
MaxOtherQueued == 2

OtherQueued ==
    Len(unlinked["producer_new"]) + Len(unlinked["consumer_new"])
        + Len(unlinked["channel2"])

\* a send that lands on the channel's queue, as if every constructor handed
\* out the same buffer
OtherSendShared(h, v) ==
    /\ tester = "running"
    /\ h \in OtherProducers
    /\ OtherQueued < MaxOtherQueued
    /\ bufcap' = GrowIfNecessary(bufcap, queue)
    /\ queue' = PushBack(queue, v)
    /\ ret' = Ok(h, "send", 0)
    /\ UNCHANGED <<unlinked, tester, hint, holder, poisoned, pc, arg, spins, trace>>

\* send on a Producer::new handle or on the Producer of the second channel
OtherSend(h, v) ==
    /\ tester = "running"
    /\ h \in OtherProducers
    /\ OtherQueued < MaxOtherQueued
    /\ unlinked' = [unlinked EXCEPT ![QueueOf(h)] = PushBack(@, v)]
    /\ ret' = Ok(h, "send", 0)
    /\ UNCHANGED <<tester, hint, queue, bufcap, holder, poisoned, pc, arg, spins, trace>>

\* size() on any of these handles
OtherSize(h) ==
    /\ tester = "running"
    /\ ret' = Ok(h, "size", QueueLen(unlinked[QueueOf(h)]))
    /\ UNCHANGED <<unlinked, tester, hint, queue, bufcap, holder, poisoned, pc, arg, spins, trace>>

\* recv on a Consumer::new handle or on the Consumer of the second channel,
\* its queue holding a value
OtherRecvSome(h) ==
    /\ tester = "running"
    /\ h \in OtherConsumers
    /\ unlinked[QueueOf(h)] # <<>>
    /\ ret' = Ok(h, "recv", PopFrontValue(unlinked[QueueOf(h)]))
    /\ unlinked' = [unlinked EXCEPT ![QueueOf(h)] = PopFrontRest(@)]
    /\ UNCHANGED <<tester, hint, queue, bufcap, holder, poisoned, pc, arg, spins, trace>>

\* the same on an empty queue: the test thread never leaves the loop of recv
OtherRecvNone(h) ==
    /\ tester = "running"
    /\ h \in OtherConsumers
    /\ unlinked[QueueOf(h)] = <<>>
    /\ tester' = "hung"
    /\ ret' = NoReturn
    /\ UNCHANGED <<unlinked, hint, queue, bufcap, holder, poisoned, pc, arg, spins, trace>>

LinkNext ==
    \/ \E t \in Duo : Call(t)
    \/ \E t \in Duo : Step(t)
    \/ PoisonLock
    \/ \E h \in OtherHandles : \E v \in Values : OtherSend(h, v)
    \/ \E h \in OtherHandles : OtherSize(h)
    \/ \E h \in OtherHandles : OtherRecvSome(h)
    \/ \E h \in OtherHandles : OtherRecvNone(h)

LinkSpec == Init /\ [][LinkNext]_vars

(* ------------------------------- main ---------------------------------- *)
\* main calls channel(64)
DemoHint == 64

\* the producer thread sends 1..DemoCount and the consumer thread receives
\* DemoCount values (main: 29)
DemoCount == 4

DemoInit ==
    /\ hint = DemoHint
    /\ queue = <<>>
    /\ bufcap = WithCapacity(hint)
    /\ holder = NoThread
    /\ poisoned = FALSE
    /\ pc = [t \in Threads |-> "idle"]
    /\ arg = [t \in Threads |-> 0]
    /\ ret = NoReturn
    /\ spins = [t \in Threads |-> 0]
    /\ trace = <<>>
    /\ unlinked = [q \in OtherQueues |-> <<>>]
    /\ tester = "running"

\* for i in 1..count { px.send(i).unwrap(); }
DemoSend ==
    /\ pc["p1"] = "idle"
    /\ SendsCalled < DemoCount
    /\ pc' = [pc EXCEPT !["p1"] = "send"]
    /\ arg' = [arg EXCEPT !["p1"] = SendsCalled + 1]
    /\ ret' = NoReturn
    /\ UNCHANGED <<unlinked, tester, hint, queue, bufcap, holder, poisoned, spins, trace>>

\* for _i in 1..count { match cx.recv() { Ok(val) => sum += val, .. } }
DemoRecv ==
    /\ Len(Received) < DemoCount
    /\ CallRecv("c1")

RECURSIVE SumOf(_)
SumOf(s) == IF s = <<>> THEN 0 ELSE Head(s) + SumOf(Tail(s))

\* the consumer thread's sum
DemoSum == SumOf(Received)

ProducerDone == pc["p1"] = "idle" /\ Len(Pushed) = DemoCount
ConsumerDone == pc["c1"] = "idle" /\ Len(Received) = DemoCount

DemoProducer == DemoSend \/ SendOk("p1")
DemoConsumer ==
    DemoRecv \/ RecvLock("c1") \/ RecvPopNone("c1") \/ RecvPopSome("c1")

DemoNext == DemoProducer \/ DemoConsumer

\* both threads run to the end of their closures whenever they can
DemoSpec ==
    /\ DemoInit /\ [][DemoNext]_vars
    /\ WF_vars(DemoProducer) /\ WF_vars(DemoConsumer)

(* ======================= properties of the channel ===================== *)
InRecv(c)   == pc[c] \in {"recv", "recv_loop"}
Others(ts)  == Threads \ ts

\* C1: Consumer::recv never spins while holding the queue lock: once a pop
\* attempt of a recv has found the queue empty, the recv does not hold the
\* lock while it waits for its next attempt, so the lock is free for another
\* thread whenever a recv is waiting for data.
C1_RecvWaitsWithoutLock ==
    \A c \in Consumers :
        (pc[c] = "recv_loop" /\ spins[c] > 0) => holder = NoThread

\* C2: blocking receive.  When a recv is waiting on the empty queue and
\* another thread then calls send(v), the waiting recv eventually returns
\* Ok(v) (no other thread taking part).
C2_Waiting(c, p, v) ==
    /\ pc[c] = "recv_loop" /\ spins[c] > 0 /\ queue = <<>>
    /\ pc[p] = "send" /\ arg[p] = v
    /\ \A t \in Others({c, p}) : pc[t] = "idle"

C2_BlockingRecvReturns ==
    \A c \in Consumers : \A p \in Producers : \A v \in Values :
        C2_Waiting(c, p, v)
            ~> (ret = Ok(c, "recv", v) \/ \E t \in Others({c, p}) : pc[t] # "idle")

\* C3: producers never wait.  With a healthy lock every send that has been
\* called eventually returns, whatever the consumers are doing.
C3_SendEventuallyReturns ==
    \A p \in Producers :
        (pc[p] = "send" /\ ~poisoned)
            ~> ((ret.thread = p /\ ret.op = "send" /\ ret.kind \in {"Ok", "SendError"})
                \/ poisoned)

\* C4: global FIFO under concurrency.  Over every interleaving of send and
\* recv through any handles, the n-th successful recv returns the value of
\* the n-th send that completed its push.
C4_GlobalFifo ==
    /\ Len(Received) <= Len(Pushed)
    /\ \A n \in 1..Len(Received) : Received[n] = Pushed[n]

\* two different values went through the queue while both consumers and a
\* producer were inside calls
C4_Witness ==
    /\ Len(Received) = 2
    /\ Received[1] # Received[2]
    /\ ret.op = "recv" /\ ret.kind = "Ok"
    /\ \E c \in Consumers : InRecv(c)

\* C5: sequential FIFO.  When v1..vn are pushed on the fresh channel with no
\* pop in between and n recv calls follow, the recv calls return v1..vn in
\* that order and leave the queue empty.
PushesThenPops(n) ==
    /\ Len(trace) = 2 * n
    /\ \A i \in 1..n : trace[i][1] = "push"
    /\ \A i \in (n + 1)..(2 * n) : trace[i][1] = "pop"

C5_SequentialFifo ==
    \A n \in 1..MaxSends :
        PushesThenPops(n) =>
            /\ \A i \in 1..n : trace[n + i][2] = trace[i][2]
            /\ queue = <<>>

C5_Witness ==
    /\ PushesThenPops(2)
    /\ trace[1][2] # trace[2][2]
    /\ ret.op = "recv" /\ ret.kind = "Ok"

\* C6: size accuracy.  After k completed sends and j completed recvs, with no
\* operation in flight, size() on a Producer and size() on a Consumer return
\* Ok(k - j); on the fresh channel that is Ok(0).
NothingInFlight == \A t \in Threads : pc[t] = "idle"

C6_SizeAccurate ==
    (ret.op = "size" /\ NothingInFlight /\ ~poisoned) =>
        /\ ret.kind = "Ok"
        /\ ret.val = Len(Pushed) - Len(Received)

C6_Witness ==
    /\ ret.op = "size" /\ ret.kind = "Ok" /\ ret.val = 1
    /\ NothingInFlight
    /\ Len(Pushed) = 2 /\ Len(Received) = 1

\* C7: multi-producer safety.  Two producer threads send one value each
\* through their own handles and one consumer thread calls recv twice: in
\* every interleaving both recv calls return, and the two values received
\* are the two values sent.
C7_FirstRecv ==
    /\ pc["p1"] = "send" /\ pc["p2"] = "send"
    /\ InRecv("c1") /\ pc["c2"] = "idle"
    /\ trace = <<>>

C7_SecondRecv ==
    /\ pc["p1"] \in {"send", "idle"} /\ pc["p2"] \in {"send", "idle"}
    /\ SendsCalled = 2
    /\ InRecv("c1") /\ pc["c2"] = "idle"
    /\ Len(Received) = 1

C7_Returned == ret.thread = "c1" /\ ret.op = "recv" /\ ret.kind = "Ok"

C7_Disturbed == poisoned \/ pc["c2"] # "idle"

SameValues(s, t) ==
    /\ Len(s) = Len(t)
    /\ \A v \in Values :
          Cardinality({i \in 1..Len(s) : s[i] = v})
              = Cardinality({i \in 1..Len(t) : t[i] = v})

C7_MultiProducerSafety ==
    /\ C7_FirstRecv ~> (C7_Returned \/ C7_Disturbed)
    /\ C7_SecondRecv
          ~> ((C7_Returned /\ SameValues(Received, Pushed)) \/ C7_Disturbed)

\* C8: send error propagation.  On a poisoned lock send(v) returns
\* Err(SendError(v)) with the original value, leaves the queue as it was and
\* does not panic.
C8_SendErrorOnPoison ==
    [][\A p \in Producers :
          (pc[p] = "send" /\ poisoned /\ pc'[p] # "send") =>
              /\ ret' = SendError(p, arg[p])
              /\ pc'[p] = "idle"
              /\ queue' = queue]_vars

\* C9: capacity() and size(), on both handles, return Err(Error) as a value
\* on a poisoned lock and never panic.
C9_ObserversErrorOnPoison ==
    [][\A t \in Threads :
          (pc[t] \in {"size", "capacity"} /\ poisoned /\ pc'[t] # pc[t]) =>
              /\ ret' = ErrorResult(t, pc[t])
              /\ pc'[t] = "idle"]_vars

\* C10: recv on a poisoned lock returns Err(RecvError) at once: it does not
\* enter the waiting loop, does not panic, does not look at the queue as if
\* it were empty, and leaves the queue contents as they were.
C10_RecvErrorOnPoison ==
    [][/\ \A c \in Consumers :
             (pc[c] = "recv" /\ poisoned /\ pc'[c] # "recv") =>
                 /\ ret' = RecvErrorLock(c)
                 /\ pc'[c] = "idle"
                 /\ holder' = NoThread
                 /\ queue' = queue
       /\ poisoned' => \A c \in Consumers : pc'[c] # "recv_loop"]_vars

C10_Witness ==
    /\ poisoned
    /\ ret.op = "recv" /\ ret.kind = "RecvErrorLock"
    /\ queue # <<>>

\* C11: empty is never an error.  With a healthy lock recv never returns
\* Err(RecvError): a recv that returns, returns Ok(front element); the
\* "pop_front() returned None" result is never produced; and a recv that
\* finds the queue empty stays in its loop.
C11_EmptyIsNeverAnError ==
    [][/\ ret'.kind # "RecvErrorNone"
       /\ (ret'.op = "recv" /\ ~poisoned') =>
              (queue # <<>> /\ ret' = Ok(ret'.thread, "recv", queue[1]))
       /\ \A c \in Consumers :
              (pc[c] = "recv_loop" /\ queue = <<>>) => pc'[c] = "recv_loop"]_vars

\* a recv has found the healthy queue empty and is still waiting
C11_Witness ==
    /\ ~poisoned /\ queue = <<>>
    /\ \E c \in Consumers : pc[c] = "recv_loop" /\ spins[c] > 0

\* C13: capacity is advisory.  With a healthy lock a send(v) that returns,
\* returns Ok(()) and has appended v at the back of the queue, whatever the
\* queue length is, also when it has reached or passed the capacity hint.
C13_CapacityIsAdvisory ==
    [][\A p \in Producers :
          (pc[p] = "send" /\ ~poisoned /\ pc'[p] # "send") =>
              /\ ret' = Ok(p, "send", 0)
              /\ queue' = queue \o <<arg[p]>>
              /\ pc'[p] = "idle"]_vars

\* a send has just succeeded on a queue that already held as many values as
\* the hint, or more
C13_Witness ==
    /\ ret.op = "send" /\ ret.kind = "Ok"
    /\ Len(queue) = 2
    /\ Len(queue) - 1 >= hint

\* C18: conservation.  In every reachable state the values whose push has
\* completed are the values already returned by recv, in return order,
\* followed by the current queue contents: nothing is delivered twice,
\* nothing is dropped, nothing is received that was not sent.
C18_Conservation == Pushed = Received \o queue

\* one value has been delivered and a different one is still queued
C18_Witness ==
    /\ Len(Received) = 1 /\ Len(queue) = 1
    /\ Received[1] # queue[1]

\* C19: observers are read-only.  A size() or capacity() call, on either
\* handle, leaves the queue contents, its length, its buffer and the lock
\* state as they were and has released the lock when it returns; only send and
\* recv change the queue.
C19_ObserversReadOnly ==
    [][/\ ret'.op \in {"size", "capacity"} =>
              /\ queue' = queue /\ bufcap' = bufcap /\ trace' = trace
              /\ poisoned' = poisoned
              /\ holder' = holder /\ holder' # ret'.thread
       /\ queue' # queue => ret'.op \in {"send", "recv"}]_vars

\* capacity() has returned on a non-empty queue with another call pending
C19_Witness ==
    /\ ret.op = "capacity" /\ ret.kind = "Ok"
    /\ queue # <<>>
    /\ holder = NoThread /\ ~poisoned
    /\ \E t \in Threads : pc[t] = "size"

\* C20: the channel never poisons its own lock.  No step of a send, recv,
\* size or capacity call turns a healthy lock into a poisoned one: a call
\* panics only when it finds the lock poisoned already.
IsCallStep == pc' # pc \/ ret' # NoReturn \/ spins' # spins \/ queue' # queue

C20_NeverPoisonsOwnLock ==
    [][/\ IsCallStep => poisoned' = poisoned
       /\ ret'.kind = "Panic" => poisoned]_vars

\* with the lock still healthy, values have been sent and received and a
\* size() has just returned
C20_Witness ==
    /\ ~poisoned
    /\ Len(Received) = 2
    /\ ret.op = "size" /\ ret.kind = "Ok"

\* the largest number of values that were queued at one time
RECURSIVE PeakFrom(_, _, _)
PeakFrom(tr, cur, best) ==
    IF tr = <<>> THEN best
    ELSE IF Head(tr)[1] = "push"
         THEN PeakFrom(Tail(tr), cur + 1, Max(best, cur + 1))
         ELSE PeakFrom(Tail(tr), cur - 1, best)

PeakQueued == PeakFrom(trace, 0, 0)

\* C15: capacity stability.  Along every sequence of send, recv, size and
\* capacity calls the value that capacity() returns never decreases from one
\* call to a later one: capacity() reports the current reservation, recv does
\* not shrink it and send keeps or grows it.
C15_CapacityNeverDecreases ==
    [][/\ Capacity(bufcap') >= Capacity(bufcap)
       /\ (ret'.op = "capacity" /\ ret'.kind = "Ok") => ret'.val = Capacity(bufcap')
       /\ bufcap' # bufcap => ret'.op = "send"]_vars

\* the buffer has grown, every value has been received again, and capacity()
\* still returns the grown value
C15_Witness ==
    /\ ret.op = "capacity" /\ ret.kind = "Ok"
    /\ ret.val > NextPowerOfTwo(Max(hint + 1, 2)) - 1
    /\ Len(Received) = 2 /\ queue = <<>>

NormalizedCapacity(c) == NextPowerOfTwo(Max(c + 1, 2)) - 1

C16_QueueOutlivesHandles ==
    [][/\ \A t \in Threads :
             (pc[t] # "dropped" /\ pc'[t] = "dropped"
              /\ \E u \in Threads \ {t} : Live(u)) =>
                 /\ queue' = queue /\ bufcap' = bufcap
                 /\ poisoned' = poisoned /\ holder' = holder
       /\ (ret'.op = "recv" /\ ret'.kind = "Ok") =>
              /\ Len(Received') <= Len(Pushed')
              /\ ret'.val = Pushed'[Len(Received')]]_vars

\* both producers and one consumer have dropped their handles, two different
\* values are still queued and the remaining consumer is about to pop
C16_Witness ==
    /\ pc["p1"] = "dropped" /\ pc["p2"] = "dropped" /\ pc["c2"] = "dropped"
    /\ Len(queue) = 2 /\ queue[1] # queue[2]
    /\ pc["c1"] = "recv_loop"

\* C14: linked versus unlinked handles.  The Producer and Consumer of one
\* channel() call work on the same queue: the Consumer's size() counts what
\* was sent through the Producer and its recv() returns it.  A handle built
\* by Producer::new or Consumer::new, and the pair of another channel() call,
\* work on queues of their own: their calls never change the channel's queue
\* or each other's, and the channel's calls never change theirs.
C14_LinkedAndUnlinked ==
    [][/\ (ret'.thread \in Consumers /\ ret'.op = "size" /\ ret'.kind = "Ok") =>
              ret'.val = Len(Pushed') - Len(Received')
       /\ (ret'.thread \in Consumers /\ ret'.op = "recv" /\ ret'.kind = "Ok") =>
              ret'.val = Pushed'[Len(Received')]
       /\ ret'.thread \in OtherHandles =>
              /\ queue' = queue /\ bufcap' = bufcap /\ trace' = trace
              /\ \A q \in OtherQueues \ {QueueOf(ret'.thread)} :
                     unlinked'[q] = unlinked[q]
       /\ ret'.thread \in Threads => unlinked' = unlinked]_vars

\* a Producer::new handle has just sent a value while the channel and the
\* second channel each hold a value of their own
C14_Witness ==
    /\ ret.thread = "pn" /\ ret.op = "send"
    /\ Len(unlinked["producer_new"]) = 1
    /\ Len(unlinked["channel2"]) = 1
    /\ Len(queue) = 1
    /\ unlinked["consumer_new"] = <<>>

\* C12: the demo.  With one thread sending 1..DemoCount and one thread
\* receiving DemoCount values and summing them, both threads terminate under
\* every fair interleaving and the sum is DemoCount * (DemoCount + 1) / 2
\* (435 for the 29 values of main).
C12_DemoTerminatesWithSum ==
    <>(/\ ProducerDone /\ ConsumerDone
       /\ DemoSum = (DemoCount * (DemoCount + 1)) \div 2)

====
